---- MODULE Spec2Model ----
(***************************************************************************)
(* dataform-assguard: the incremental extract / dedup / normalize / load   *)
(* pipeline of src/main.py, with the warehouse operations of               *)
(* src/bigquery_client.py and the Dataform API calls of                    *)
(* src/dataform_api.py.                                                    *)
(*                                                                         *)
(* Python dictionaries are functions with a finite domain (a key that is   *)
(* absent upstream is absent from the domain), Python lists are sequences, *)
(* action names are sequences of one-character strings so that lower()     *)
(* and the substring test are computed, not assumed.                       *)
(***************************************************************************)
EXTENDS Integers, Sequences, FiniteSets, TLC

\* ------------------------------------------------------------------ bounds

\* Number of pipeline runs in one behaviour.
MaxRuns == 2
\* Longest listing the Dataform API returns.
MaxListing == 2
\* Longest action list drawn for the extraction loop on its own (SpecExtract).
MaxActions == 2

\* ------------------------------------------------------- Python primitives

\* dict.get(k, default)
Get(d, k, default) == IF k \in DOMAIN d THEN d[k] ELSE default

\* The value None, as a dictionary that differs from every timestamp below.
None == [none |-> TRUE]

UpperCase == <<"A","B","C","D","E","F","G","H","I","J","K","L","M",
               "N","O","P","Q","R","S","T","U","V","W","X","Y","Z">>
LowerCase == <<"a","b","c","d","e","f","g","h","i","j","k","l","m",
               "n","o","p","q","r","s","t","u","v","w","x","y","z">>

\* The lower-case letter of each upper-case letter.
LowerOf == [c \in {UpperCase[i] : i \in DOMAIN UpperCase} |->
               LowerCase[CHOOSE i \in DOMAIN UpperCase : UpperCase[i] = c]]

LowerChar(c) == IF c \in DOMAIN LowerOf THEN LowerOf[c] ELSE c

\* str.lower()
Lower(s) == [i \in 1..Len(s) |-> LowerChar(s[i])]

\* needle in hay
Contains(needle, hay) ==
    \E i \in 1..(Len(hay) - Len(needle) + 1) :
        SubSeq(hay, i, i + Len(needle) - 1) = needle

\* The literal "assertion" of main.py line 97.
ASSERTION == <<"a","s","s","e","r","t","i","o","n">>

\* The test of main.py line 97, negated: the action is kept.
QualifiesAssert(action_name) == Contains(SubSeq(ASSERTION, 1, 6), Lower(action_name))
Qualifies(action_name) == Contains(ASSERTION, Lower(action_name))

\* ------------------------------------------------------------ extraction

\* invocation.get("name", "N/A")
InvocationName(invocation) == Get(invocation, "name", "N/A")

\* action.get("target", {}).get("name", "")
ActionName(action) == Get(Get(action, "target", <<>>), "name", <<>>)

StateOf(action) == Get(action, "state", "UNKNOWN")

FailureReasonUnguarded(action) == Get(action, "failureReason", "N/A")
FailureReasonOf(action) ==
    IF StateOf(action) = "FAILED" THEN Get(action, "failureReason", "N/A") ELSE "N/A"

\* The dictionary appended at main.py lines 110-119.
RecordOf(invocation_name, action) ==
    [ Start_Time      |-> Get(Get(action, "invocationTiming", <<>>), "startTime", None),
      End_Time        |-> Get(Get(action, "invocationTiming", <<>>), "endTime", None),
      Invocation_Name |-> invocation_name,
      Action_Name     |-> ActionName(action),
      Database        |-> Get(Get(action, "target", <<>>), "database", "N/A"),
      Schema          |-> Get(Get(action, "target", <<>>), "schema", "N/A"),
      State           |-> StateOf(action),
      Failure_Reason  |-> FailureReasonOf(action) ]

\* The inner loop of main.py lines 95-119 over one invocation's actions.
RECURSIVE ExtractRecords(_, _)
ExtractRecords(invocation_name, actions) ==
    IF actions = <<>> THEN <<>>
    ELSE (IF Qualifies(ActionName(Head(actions)))
          THEN <<RecordOf(invocation_name, Head(actions))>>
          ELSE <<>>)
         \o ExtractRecords(invocation_name, Tail(actions))

\* ---------------------------------------------------------- normalization

\* The unit of .dt.round("us"), in nanoseconds.
NsPerUs == 1000

\* An upstream timestamp string that parses, with its instant in nanoseconds,
\* and one that does not parse.
Ts(n) == [ns |-> n]
Garbage == [unparsable |-> TRUE]
NaT == [nat |-> TRUE]

\* Series.dt.round("us"): to the nearest microsecond, ties to the even one.
RoundUs(n) ==
    LET q == n \div NsPerUs
        r == n % NsPerUs
    IN  IF 2 * r < NsPerUs THEN q
        ELSE IF 2 * r > NsPerUs THEN q + 1
        ELSE IF q % 2 = 0 THEN q ELSE q + 1

\* pd.to_datetime(errors="coerce").dt.tz_localize(None).dt.round("us") on one
\* value: None and unparsable text become NaT.
ToDatetime(v) == IF "ns" \in DOMAIN v THEN [us |-> RoundUs(v.ns)] ELSE NaT

ConvertRecord(r) ==
    [r EXCEPT !.Start_Time = ToDatetime(r.Start_Time), !.End_Time = ToDatetime(r.End_Time)]

\* main.py lines 128-142 on the whole frame.
ConvertAll(data) == [i \in 1..Len(data) |-> ConvertRecord(data[i])]

IsNaT(t) == "nat" \in DOMAIN t

\* Among the rows whose keys are equal and largest, the ones the sort may put
\* first. sort_values is called without kind=, so numpy's quicksort orders
\* them: it promises no order among equal keys (a stable sort would put the
\* earliest row first).
TieChoices(maxes) == maxes

\* The orders of the rows idxs of frame s by Start_Time, latest first.
RECURSIVE Descending(_, _)
Descending(s, idxs) ==
    IF idxs = {} THEN {<<>>}
    ELSE LET maxes == {i \in idxs : \A j \in idxs : s[j].Start_Time.us <= s[i].Start_Time.us}
         IN  UNION { { <<i>> \o rest : rest \in Descending(s, idxs \ {i}) }
                     : i \in TieChoices(maxes) }

\* The rows of s with a NaT Start_Time, in their input order (nargsort keeps
\* the null positions as it found them and puts them last).
NullRows(s) == SelectSeq(s, LAMBDA r : IsNaT(r.Start_Time))

\* df.sort_values(by="Start_Time", ascending=False, na_position="last") and
\* reset_index: every frame the call may leave.
SortValues(s) ==
    { [k \in 1..Len(ord) |-> s[ord[k]]] \o NullRows(s)
      : ord \in Descending(s, {i \in 1..Len(s) : ~IsNaT(s[i].Start_Time)}) }

\* df.empty
DfEmptyNever(data) == FALSE
DfEmpty(data) == data = <<>>

\* ------------------------------------------------------------- warehouse

\* SELECT DISTINCT Invocation_Name, keeping the truthy values (line 64).
ProcessedInvocations(rows) ==
    {rows[i].Invocation_Name : i \in 1..Len(rows)} \ {""}

\* A load job with write_disposition WRITE_APPEND.
WriteTruncate(rows, frame) == frame
WriteAppend(rows, frame) == rows \o frame

\* ---------------------------------------------------- the upstream content

Empty == [x \in {} |-> 0]

NameLower == <<"a","s","s","e","r","t","i","o","n","_","1">>
NameUpper == <<"u","_","A","S","S","E","R","T","I","O","N">>
NameMixed == <<"A","s","s","e","r","t","i","o","n","s">>
NameNear  == <<"a","s","s","e","r","t">>
NameTable == <<"o","r","d","e","r","s">>

\* Workflow invocations the listing may hold: a named one, one whose name is
\* the empty string and one without a name.
InvocationPool ==
    { [name |-> "wi/a"], [name |-> ""], [state |-> "SUCCEEDED"] }

\* The listings: each workflow invocation is listed once.
Listings ==
    UNION { { l \in [1..n -> InvocationPool] : \A i, j \in 1..n : l[i] = l[j] => i = j }
            : n \in 0..MaxListing }

ActPassed ==
    [ target |-> [name |-> NameLower, database |-> "db", schema |-> "sch"],
      invocationTiming |-> [startTime |-> Ts(3000), endTime |-> Ts(4000)],
      state |-> "SUCCEEDED", failureReason |-> "stale" ]
ActFailed ==
    [ target |-> [name |-> NameUpper, database |-> "db"],
      invocationTiming |-> [startTime |-> Ts(2500), endTime |-> Ts(2600)],
      state |-> "FAILED", failureReason |-> "boom" ]
ActTie ==
    [ target |-> [name |-> NameMixed],
      invocationTiming |-> [startTime |-> Ts(1500)],
      state |-> "SUCCEEDED" ]
ActNoState ==
    [ target |-> [name |-> NameLower, schema |-> "sch"],
      invocationTiming |-> [startTime |-> Garbage, endTime |-> Ts(1500)],
      failureReason |-> "boom" ]
ActTable ==
    [ target |-> [name |-> NameTable, database |-> "db", schema |-> "sch"],
      invocationTiming |-> [startTime |-> Ts(3000), endTime |-> Ts(4000)],
      state |-> "SUCCEEDED" ]
ActNoTarget == [ state |-> "FAILED", failureReason |-> "boom" ]

\* What workflowInvocationActions may hold for one invocation in the pipeline
\* runs.
Responses ==
    { <<>>,
      <<ActTable, ActNoTarget>>,
      <<ActFailed, ActTable, ActPassed, ActNoState>> }

\* What one action may look like when the extraction loop is checked on its
\* own: every way the target, its name, the state and the failure reason may
\* be there or not.
TargetParts ==
    { Empty, [target |-> [database |-> "db"]] }
    \cup { [target |-> [name |-> n, schema |-> "sch"]]
           : n \in {NameLower, NameUpper, NameMixed, NameNear, NameTable} }
StateParts == { Empty, [state |-> "SUCCEEDED"], [state |-> "FAILED"] }
ReasonParts == { Empty, [failureReason |-> "boom"] }
WideActions == { t @@ st @@ f : t \in TargetParts, st \in StateParts, f \in ReasonParts }
ActionLists == UNION { [1..n -> WideActions] : n \in 0..MaxActions }

\* ------------------------------------------------------------------ state

VARIABLES
    pc,                     \* where main() is; "idle" between two runs
    run,                    \* number of the current (or last) run
    tableExists, table,     \* the fact table assertion_data and its rows
    views,                  \* the views this run has created or replaced
    listing,                \* upstream: the workflow invocations of the repository
    actionsOf,              \* upstream: the actions of the invocations queried so far
    changed,                \* upstream changed since the last run started
    processed_invocations, workflow_invocations, idx, assertion_data, df,
                            \* the locals of main(); idx is the loop's position
    qlog,                   \* per listed invocation visited, how the loop left it
    outcome,                \* how the run ended, "running" until then
    fault,                  \* a call failed or main() returned early on an error
    tableAtStart,           \* the rows of the fact table when the run started
    pending,                \* names queried in an earlier run and not loaded since
    rerun                   \* the run follows a fault-free run, upstream unchanged

warehouse == <<tableExists, table>>
upstream  == <<listing, actionsOf, changed>>
locals    == <<processed_invocations, workflow_invocations, idx, assertion_data, df>>
ghosts    == <<qlog, views>>
history   == <<run, tableAtStart, rerun, pending>>
vars == <<pc, warehouse, upstream, locals, history, ghosts, outcome, fault>>

Init ==
    /\ pc = "idle" /\ run = 0
    /\ tableExists \in BOOLEAN /\ table = <<>>
    /\ views = {}
    /\ listing \in Listings /\ actionsOf = Empty /\ changed = FALSE
    /\ processed_invocations = {} /\ workflow_invocations = <<>> /\ idx = 1
    /\ assertion_data = <<>> /\ df = <<>>
    /\ qlog = <<>> /\ outcome = "none" /\ fault = FALSE
    /\ tableAtStart = <<>> /\ rerun = FALSE /\ pending = {}

\* ------------------------------------------------------------ environment

\* Between two runs the repository gets a workflow invocation, or its oldest
\* one is deleted.
ListingChanges ==
    /\ pc = "idle" /\ run \in 1..(MaxRuns - 1) /\ ~changed
    /\ \/ /\ Len(listing) < MaxListing
          /\ \E i \in InvocationPool : listing' = Append(listing, i) /\ listing' \in Listings
       \/ /\ listing # <<>>
          /\ listing' = Tail(listing)
    /\ changed' = TRUE
    /\ UNCHANGED <<pc, warehouse, actionsOf, locals, history, ghosts, outcome, fault>>

\* The actions of an invocation change between two runs (it was still running).
ActionsChange ==
    /\ pc = "idle" /\ run \in 1..(MaxRuns - 1) /\ ~changed
    /\ \E n \in DOMAIN actionsOf :
          actionsOf' = [m \in (DOMAIN actionsOf) \ {n} |-> actionsOf[m]]
    /\ changed' = TRUE
    /\ UNCHANGED <<pc, warehouse, listing, locals, history, ghosts, outcome, fault>>

\* ------------------------------------------------------------------ main()

\* python main.py
StartRun ==
    /\ pc = "idle" /\ run < MaxRuns
    /\ pc' = "env" /\ run' = run + 1
    /\ outcome' = "running" /\ fault' = FALSE
    /\ rerun' = (run >= 1 /\ ~fault /\ ~changed)
    /\ changed' = FALSE
    /\ UNCHANGED <<warehouse, listing, actionsOf, locals, ghosts, tableAtStart, pending>>

NameAt(i) == InvocationName(workflow_invocations[i])
NamesIn(rows) == {rows[i].Invocation_Name : i \in 1..Len(rows)}

\* The run appended its frame to the fact table.
Loaded ==
    \/ pc \in {"view_synthesis", "view_recap"}
    \/ pc = "done" /\ outcome \in {"success", "view_error"}

\* main() returns; the process ends and its locals are gone.
Return ==
    /\ pc = "done"
    /\ pc' = "idle"
    /\ pending' = (pending \cup {NameAt(i) : i \in {j \in 1..Len(qlog) : qlog[j] # "skipped"}})
                     \ (IF Loaded THEN NamesIn(df) ELSE {})
    /\ processed_invocations' = {} /\ workflow_invocations' = <<>> /\ idx' = 1
    /\ assertion_data' = <<>> /\ df' = <<>>
    /\ qlog' = <<>> /\ views' = {} /\ outcome' = "none" /\ tableAtStart' = table
    /\ UNCHANGED <<warehouse, upstream, run, rerun, fault>>

\* An early return of main() after an error was logged.
Abort(o) ==
    /\ pc' = "done" /\ outcome' = o /\ fault' = TRUE

\* Lines 27-34.
EnvOk ==
    /\ pc = "env" /\ pc' = "auth"
    /\ UNCHANGED <<warehouse, upstream, locals, history, ghosts, outcome, fault>>
EnvMissing ==
    /\ pc = "env" /\ Abort("config_error")
    /\ UNCHANGED <<warehouse, upstream, locals, history, ghosts>>

\* Lines 36-42.
AuthOk ==
    /\ pc = "auth" /\ pc' = "client"
    /\ UNCHANGED <<warehouse, upstream, locals, history, ghosts, outcome, fault>>
AuthFail ==
    /\ pc = "auth" /\ Abort("auth_error")
    /\ UNCHANGED <<warehouse, upstream, locals, history, ghosts>>

\* Lines 46-52.
ClientOk ==
    /\ pc = "client" /\ pc' = "processed"
    /\ UNCHANGED <<warehouse, upstream, locals, history, ghosts, outcome, fault>>
ClientFail ==
    /\ pc = "client" /\ Abort("client_error")
    /\ UNCHANGED <<warehouse, upstream, locals, history, ghosts>>

\* get_processed_invocations: the dataset is there, ensure_table_exists finds
\* or creates the table, the query answers.
GetProcessedOk ==
    /\ pc = "processed" /\ pc' = "list"
    /\ tableExists' = TRUE
    /\ processed_invocations' = ProcessedInvocations(table)
    /\ UNCHANGED <<table, upstream, workflow_invocations, idx, assertion_data, df,
                   history, ghosts, outcome, fault>>
\* get_dataset raises NotFound (lines 55-57).
GetProcessedNoDataset ==
    /\ pc = "processed" /\ Abort("processed_error")
    /\ UNCHANGED <<warehouse, upstream, locals, history, ghosts>>
\* create_table raises (lines 36-38).
GetProcessedCreateFail ==
    /\ pc = "processed" /\ ~tableExists /\ Abort("processed_error")
    /\ UNCHANGED <<warehouse, upstream, locals, history, ghosts>>
\* The SELECT raises (lines 67-72), after ensure_table_exists.
GetProcessedQueryFail ==
    /\ pc = "processed" /\ Abort("processed_error")
    /\ tableExists' = TRUE
    /\ UNCHANGED <<table, upstream, locals, history, ghosts>>

\* list_workflow_invocations answers with a listing that is not empty.
ListOk ==
    /\ pc = "list" /\ listing # <<>>
    /\ workflow_invocations' = listing
    /\ pc' = "loop"
    /\ UNCHANGED <<warehouse, upstream, processed_invocations, idx, assertion_data, df,
                   history, ghosts, outcome, fault>>
\* The repository has no workflow invocation (lines 67-69).
ListEmpty ==
    /\ pc = "list" /\ listing = <<>>
    /\ pc' = "done" /\ outcome' = "no_invocations"
    /\ UNCHANGED <<warehouse, upstream, locals, history, ghosts, fault>>
\* The request fails: list_workflow_invocations returns [] (dataform_api.py
\* lines 17-22) or raises something else (main.py lines 70-72).
ListFail ==
    /\ pc = "list" /\ Abort("no_invocations")
    /\ UNCHANGED <<warehouse, upstream, locals, history, ghosts>>

\* The invocation the loop of line 76 is at.
Current == InvocationName(workflow_invocations[idx])
InLoop == pc = "loop" /\ idx <= Len(workflow_invocations)

\* What the API answers for invocation n: what it answered before, or, for an
\* invocation not queried yet, any content.
Answers(n) == IF n \in DOMAIN actionsOf THEN {actionsOf[n]} ELSE Responses
Reveal(n, a) == [m \in (DOMAIN actionsOf) \cup {n} |-> IF m = n THEN a ELSE actionsOf[m]]

\* Lines 80-82.
LoopSkipProcessed ==
    /\ InLoop /\ Current \in processed_invocations
    /\ idx' = idx + 1 /\ qlog' = Append(qlog, "skipped")
    /\ UNCHANGED <<views, pc, warehouse, upstream, processed_invocations, workflow_invocations,
                   assertion_data, df, history, outcome, fault>>
\* The request fails: query_invocation_actions returns [] (dataform_api.py
\* lines 33-38) or raises something else (main.py lines 90-92).
LoopQueryFailAborts ==
    /\ InLoop /\ Current \notin processed_invocations
    /\ Abort("query_error")
    /\ UNCHANGED <<warehouse, upstream, locals, history, ghosts>>
LoopQueryFail ==
    /\ InLoop /\ Current \notin processed_invocations
    /\ idx' = idx + 1 /\ qlog' = Append(qlog, "failed")
    /\ fault' = TRUE
    /\ UNCHANGED <<views, pc, warehouse, upstream, processed_invocations, workflow_invocations,
                   assertion_data, df, history, outcome>>
\* The invocation has no action (lines 87-89).
LoopQueryEmpty ==
    /\ InLoop /\ Current \notin processed_invocations
    /\ <<>> \in Answers(Current)
    /\ actionsOf' = Reveal(Current, <<>>)
    /\ idx' = idx + 1 /\ qlog' = Append(qlog, "empty")
    /\ UNCHANGED <<views, pc, warehouse, listing, changed, processed_invocations,
                   workflow_invocations, assertion_data, df, history, outcome, fault>>
\* Lines 86 and 95-119.
LoopQueryOk ==
    /\ InLoop /\ Current \notin processed_invocations
    /\ \E actions \in Answers(Current) \ {<<>>} :
          /\ actionsOf' = Reveal(Current, actions)
          /\ assertion_data' = assertion_data \o ExtractRecords(Current, actions)
    /\ idx' = idx + 1 /\ qlog' = Append(qlog, "ok")
    /\ UNCHANGED <<views, pc, warehouse, listing, changed, processed_invocations,
                   workflow_invocations, df, history, outcome, fault>>

LoopOver == pc = "loop" /\ idx > Len(workflow_invocations)

\* Lines 121-125.
EmptyExit ==
    /\ LoopOver /\ DfEmpty(assertion_data)
    /\ pc' = "done" /\ outcome' = "no_data"
    /\ UNCHANGED <<warehouse, upstream, locals, history, ghosts, fault>>
\* Lines 127-147.
Normalize ==
    /\ LoopOver /\ ~DfEmpty(assertion_data)
    /\ df' \in SortValues(ConvertAll(assertion_data))
    /\ pc' = "load"
    /\ UNCHANGED <<warehouse, upstream, processed_invocations, workflow_invocations, idx,
                   assertion_data, history, ghosts, outcome, fault>>

\* load_to_bigquery returns.
LoadOk ==
    /\ pc = "load" /\ pc' = "view_synthesis"
    /\ tableExists' = TRUE
    /\ table' = WriteAppend(table, df)
    /\ UNCHANGED <<upstream, locals, history, ghosts, outcome, fault>>
\* load_to_bigquery raises (lines 99-104): main() returns at line 154.
LoadFailGoesOn ==
    /\ pc = "load" /\ pc' = "view_synthesis"
    /\ fault' = TRUE
    /\ UNCHANGED <<warehouse, upstream, locals, history, ghosts, outcome>>
LoadFailAppends ==
    /\ pc = "load" /\ Abort("load_error")
    /\ table' = WriteAppend(table, df)
    /\ UNCHANGED <<tableExists, upstream, locals, history, ghosts>>
LoadFail ==
    /\ pc = "load" /\ Abort("load_error")
    /\ UNCHANGED <<warehouse, upstream, locals, history, ghosts>>

\* create_all_views, first view (line 180).
SynthesisViewOk ==
    /\ pc = "view_synthesis" /\ pc' = "view_recap"
    /\ views' = views \cup {"synthesis"}
    /\ UNCHANGED <<warehouse, upstream, locals, history, qlog, outcome, fault>>
SynthesisViewFail ==
    /\ pc = "view_synthesis" /\ Abort("view_error")
    /\ UNCHANGED <<warehouse, upstream, locals, history, ghosts>>
\* create_all_views, second view (line 182), and line 164.
RecapViewOk ==
    /\ pc = "view_recap" /\ pc' = "done" /\ outcome' = "success"
    /\ views' = views \cup {"recap"}
    /\ UNCHANGED <<warehouse, upstream, locals, history, qlog, fault>>
RecapViewFail ==
    /\ pc = "view_recap" /\ Abort("view_error")
    /\ UNCHANGED <<warehouse, upstream, locals, history, ghosts>>

Next ==
    \/ ListingChanges \/ ActionsChange
    \/ StartRun \/ Return
    \/ EnvOk \/ EnvMissing \/ AuthOk \/ AuthFail \/ ClientOk \/ ClientFail
    \/ GetProcessedOk \/ GetProcessedNoDataset \/ GetProcessedCreateFail
    \/ GetProcessedQueryFail
    \/ ListOk \/ ListEmpty \/ ListFail
    \/ LoopSkipProcessed \/ LoopQueryFail \/ LoopQueryEmpty \/ LoopQueryOk
    \/ EmptyExit \/ Normalize
    \/ LoadOk \/ LoadFail
    \/ SynthesisViewOk \/ SynthesisViewFail \/ RecapViewOk \/ RecapViewFail

Spec == Init /\ [][Next]_vars

\* ------------------------------------------- the extraction loop on its own

\* main() at line 76 with one unprocessed invocation listed, whose actions are
\* any list of ActionLists.
InitExtract ==
    /\ pc = "loop" /\ run = 1
    /\ tableExists = TRUE /\ table = <<>> /\ views = {}
    /\ listing = <<[name |-> "wi/a"]>> /\ changed = FALSE
    /\ \E actions \in ActionLists : actionsOf = [n \in {"wi/a"} |-> actions]
    /\ processed_invocations = {} /\ workflow_invocations = listing /\ idx = 1
    /\ assertion_data = <<>> /\ df = <<>>
    /\ qlog = <<>> /\ outcome = "running" /\ fault = FALSE
    /\ tableAtStart = <<>> /\ rerun = FALSE /\ pending = {}

NextExtract == LoopQueryOk \/ LoopQueryEmpty

SpecExtract == InitExtract /\ [][NextExtract]_vars

\* ----------------------------------------------------------------- claims

\* What the loop has extracted after its first n visits, from the log of the
\* visits and the upstream content.
Contribution(i) ==
    IF qlog[i] = "ok" THEN ExtractRecords(NameAt(i), actionsOf[NameAt(i)]) ELSE <<>>
RECURSIVE Expected(_)
Expected(n) == IF n = 0 THEN <<>> ELSE Expected(n - 1) \o Contribution(n)

Count(rows, r) == Cardinality({i \in 1..Len(rows) : rows[i] = r})
SameRows(a, b) ==
    /\ Len(a) = Len(b)
    /\ \A i \in 1..Len(a) : Count(a, a[i]) = Count(b, a[i])

\* C1: a run that follows a fault-free run against an unchanged upstream source
\* appends nothing to the fact table, whatever the upstream content is.
C1_SecondRunAppendsNothing ==
    (pc = "done" /\ rerun) => table = tableAtStart

\* C1, for listings without an invocation whose name is the empty string: the
\* second run appends nothing.
C1_ExceptEmptyName ==
    (pc = "done" /\ rerun /\ \A i \in 1..Len(workflow_invocations) : NameAt(i) # "")
        => table = tableAtStart

\* C2: an invocation in the processed set is skipped without a query and
\* yields no record, and no record of the frame handed to the loader carries an
\* Invocation_Name the fact table held when the run started.
C2_NoRecordForStoredName ==
    pc # "idle" =>
        /\ \A i \in 1..Len(qlog) :
              NameAt(i) \in processed_invocations => qlog[i] = "skipped"
        /\ \A k \in 1..Len(assertion_data) :
              assertion_data[k].Invocation_Name \notin processed_invocations
        /\ \A k \in 1..Len(df) : df[k].Invocation_Name \notin NamesIn(tableAtStart)

\* C2, its first half alone: an invocation in the processed set is skipped
\* without a query and yields no record.
C2_ProcessedSkipped ==
    pc # "idle" =>
        /\ \A i \in 1..Len(qlog) :
              NameAt(i) \in processed_invocations => qlog[i] = "skipped"
        /\ \A k \in 1..Len(assertion_data) :
              assertion_data[k].Invocation_Name \notin processed_invocations

\* "assertion" is in the name, whatever the case of each letter.
ASSERTION_UPPER == <<"A","S","S","E","R","T","I","O","N">>
MentionsAssertion(name) ==
    \E i \in 1..(Len(name) - 8) :
        \A j \in 1..9 : name[i + j - 1] \in {ASSERTION[j], ASSERTION_UPPER[j]}

\* The actions of a list whose target has a name that mentions "assertion".
TargetMentionsAssertion(action) ==
    /\ "target" \in DOMAIN action
    /\ "name" \in DOMAIN action.target
    /\ MentionsAssertion(action.target.name)
Assertions(actions) == SelectSeq(actions, TargetMentionsAssertion)

\* The first invocation was queried and its actions went through the loop.
FirstExtracted == pc = "loop" /\ qlog = <<"ok">>

\* C3: every record the loop emits has "assertion" in its Action_Name, in any
\* case, and the records are those of the actions whose target name has it: an
\* action without it, without a target or without a target name emits none.
C3_OnlyAssertions ==
    FirstExtracted =>
        LET kept == Assertions(actionsOf[NameAt(1)])
        IN  /\ \A k \in 1..Len(assertion_data) :
                  MentionsAssertion(assertion_data[k].Action_Name)
            /\ Len(assertion_data) = Len(kept)
            /\ \A k \in 1..Len(kept) : assertion_data[k].Action_Name = kept[k].target.name

C3_Witness ==
    /\ FirstExtracted
    /\ Len(assertion_data) = 1
    /\ assertion_data[1].Action_Name = NameUpper
    /\ \E i \in 1..Len(actionsOf[NameAt(1)]) : "target" \notin DOMAIN actionsOf[NameAt(1)][i]

\* C4: a record whose State is not "FAILED" has Failure_Reason "N/A", also
\* when the action has a failureReason, and the State of a record is "UNKNOWN"
\* when its action has no state.
C4_FailureReason ==
    FirstExtracted =>
        LET kept == Assertions(actionsOf[NameAt(1)])
        IN  /\ \A k \in 1..Len(assertion_data) :
                  assertion_data[k].State # "FAILED" => assertion_data[k].Failure_Reason = "N/A"
            /\ Len(assertion_data) = Len(kept)
            /\ \A k \in 1..Len(kept) :
                  "state" \notin DOMAIN kept[k] => assertion_data[k].State = "UNKNOWN"

C4_Witness ==
    /\ FirstExtracted
    /\ Len(assertion_data) = 2
    /\ LET kept == Assertions(actionsOf[NameAt(1)])
       IN  /\ Len(kept) = 2
           /\ "failureReason" \in DOMAIN kept[1] /\ "failureReason" \in DOMAIN kept[2]
           /\ "state" \in DOMAIN kept[1] /\ kept[1].state = "SUCCEEDED"
           /\ "state" \notin DOMAIN kept[2]
    /\ assertion_data[1].State = "SUCCEEDED" /\ assertion_data[1].Failure_Reason = "N/A"
    /\ assertion_data[2].State = "UNKNOWN" /\ assertion_data[2].Failure_Reason = "N/A"

\* C5: a failed or empty action query skips its invocation and nothing else:
\* the loop visits every listed invocation, queries each one that is not in the
\* processed set, the records of every answered query are in the batch, and
\* the batch that is loaded holds them all.
C5_FailureIsolated ==
    (pc # "idle" /\ workflow_invocations # <<>>) =>
        /\ Len(qlog) = idx - 1
        /\ (pc = "loop" \/ Loaded) => assertion_data = Expected(Len(qlog))
        /\ \A i \in 1..Len(qlog) :
              NameAt(i) \notin processed_invocations => qlog[i] \in {"failed", "empty", "ok"}
        /\ pc # "loop" =>
              /\ Len(qlog) = Len(workflow_invocations)
              /\ outcome \in {"running", "no_data", "load_error", "view_error", "success"}
        /\ Loaded => (SameRows(df, ConvertAll(assertion_data)) /\ table = tableAtStart \o df)

C5_Witness ==
    /\ pc = "done" /\ outcome = "success"
    /\ qlog = <<"failed", "ok">>
    /\ Contribution(2) # <<>>
    /\ SameRows(SubSeq(table, Len(tableAtStart) + 1, Len(table)),
                ConvertAll(Contribution(2)))

\* C6: the views are created or replaced only after the append of the same
\* run succeeded: while create_all_views runs, once a view is defined and when
\* a view definition failed, the fact table holds the run's batch; a run whose
\* load failed defines no view and leaves the fact table as it was.
C6_ViewsOnlyAfterLoad ==
    /\ (pc \in {"view_synthesis", "view_recap"} \/ views # {} \/ outcome = "view_error")
          => (df # <<>> /\ table = tableAtStart \o df)
    /\ outcome = "load_error" => (views = {} /\ table = tableAtStart)

C6_Witness ==
    /\ pc = "done" /\ outcome = "view_error" /\ views = {"synthesis"}
    /\ df # <<>> /\ table = tableAtStart \o df

\* C7: when the loop ends with an empty batch the run stops before the load:
\* nothing is appended, no view is defined, and the run ends as a no-op, not
\* on an error path.
C7_EmptyBatchIsNoop ==
    /\ (pc = "done" /\ workflow_invocations # <<>> /\ assertion_data = <<>>)
          => (outcome = "no_data" /\ table = tableAtStart /\ views = {} /\ df = <<>>)
    /\ pc \in {"load", "view_synthesis", "view_recap"} => assertion_data # <<>>

C7_Witness ==
    /\ pc = "done" /\ outcome = "no_data"
    /\ qlog = <<"ok", "failed">>
    /\ actionsOf[NameAt(1)] # <<>>
    /\ table = tableAtStart

\* C8: the fact table is append-only: every step leaves the rows it found in
\* place and unchanged, and the table, once there, stays.
IsPrefix(a, b) == Len(a) <= Len(b) /\ SubSeq(b, 1, Len(a)) = a
C8_AppendOnly ==
    [][IsPrefix(table, table') /\ (tableExists => tableExists')]_vars

C8_Witness ==
    /\ pc = "view_synthesis"
    /\ tableAtStart # <<>>
    /\ Len(table) > Len(tableAtStart)
    /\ IsPrefix(tableAtStart, table)

\* Where row i of frame s belongs after a stable sort by Start_Time, latest
\* first and NaT last.
Precedes(s, j, i) ==
    \/ ~IsNaT(s[j].Start_Time) /\ IsNaT(s[i].Start_Time)
    \/ /\ ~IsNaT(s[j].Start_Time) /\ ~IsNaT(s[i].Start_Time)
       /\ s[j].Start_Time.us > s[i].Start_Time.us
    \/ s[j].Start_Time = s[i].Start_Time /\ j < i
Rank(s, i) == 1 + Cardinality({j \in 1..Len(s) : Precedes(s, j, i)})

\* C9: the frame handed to the loader is the batch ordered by Start_Time
\* descending, NaT last, rows with equal Start_Time in their input order.
C9_StableDescending ==
    pc = "load" =>
        LET s == ConvertAll(assertion_data)
        IN  /\ Len(df) = Len(s)
            /\ \A i \in 1..Len(s) : df[Rank(s, i)] = s[i]

\* C9, without the order among equal Start_Time: the frame holds the rows of
\* the batch, Start_Time descending, NaT last, the NaT rows in input order.
C9_DescendingNullsLast ==
    pc = "load" =>
        LET s == ConvertAll(assertion_data)
        IN  /\ SameRows(df, s)
            /\ \A i, j \in 1..Len(df) :
                  i < j => \/ IsNaT(df[j].Start_Time)
                           \/ /\ ~IsNaT(df[i].Start_Time)
                              /\ df[i].Start_Time.us >= df[j].Start_Time.us
            /\ NullRows(df) = NullRows(s)

\* C10: only rows put a name in the processed set, and only a name that is not
\* empty: a name queried in an earlier run and not loaded since is not in the
\* processed set, is queried again when it is listed, and its records are in
\* the fact table once a run that queried it has loaded.
C10_RetriedUntilLoaded ==
    pc # "idle" =>
        /\ processed_invocations \subseteq NamesIn(tableAtStart) \ {""}
        /\ pending \cap processed_invocations = {}
        /\ \A i \in 1..Len(qlog) :
              NameAt(i) \in pending => qlog[i] \in {"failed", "empty", "ok"}
        /\ Loaded =>
              \A i \in 1..Len(qlog) :
                  LET rows == ConvertAll(Contribution(i))
                  IN  \A k \in 1..Len(rows) :
                          \E m \in (Len(tableAtStart) + 1)..Len(table) : table[m] = rows[k]

C10_Witness ==
    /\ pc = "view_synthesis" /\ run = 2
    /\ \E i \in 1..Len(qlog) :
          /\ NameAt(i) \in pending /\ NameAt(i) # ""
          /\ qlog[i] = "ok" /\ Contribution(i) # <<>>
          /\ NameAt(i) \in NamesIn(table) /\ NameAt(i) \notin NamesIn(tableAtStart)

====
